---- MODULE Spec2Model ----
(***************************************************************************)
(* A model of corpus.py: Sequence, the Document featurizer variants        *)
(* (Character, Character2, CharacterTest), and ThaiWordCorpus.load with    *)
(* the featurization pass that ends it.                                    *)
(*                                                                         *)
(* Python values are modelled as follows.                                  *)
(*   - a Document is a record [data, label, source, feature_vector,        *)
(*     label_index]; label_index is <<>> while the attribute is absent     *)
(*     and <<n>> once featurize has set it;                                *)
(*   - a Sequence is a record [sequence, label];                           *)
(*   - a dict is a function from its keys to its values;                   *)
(*   - a line of a file is the tuple line.strip().split(' ') gives;        *)
(*   - list positions are 0-based, as in Python: s[k] is Item(s, k).       *)
(***************************************************************************)
EXTENDS Integers, Sequences, FiniteSets, TLC

VARIABLES
    document_class,   \* the Document subtype handed to Corpus.__init__
    documents,        \* Corpus.documents: the list of Sequences
    feature_codebook, \* ThaiWordCorpus.feature_codebook
    label_codebook,   \* ThaiWordCorpus.label_codebook
    pc,               \* "idle" | "loading" | "aborted"
    sequence,         \* load's local: the accumulation buffer
    line_number,      \* load's local
    lines,            \* the lines load has consumed from the open file
    opened,           \* documents as it was when the file was opened
    before,           \* both codebooks as they were when the file was opened
    nfiles,           \* featurization passes asked for so far (one per file loaded)
    nread,            \* lines consumed so far, over all files
    nmut,             \* container mutations done by the caller so far
    fin,              \* featurizer harness: the sequence under test
    fout              \* featurizer harness: <<>>, or <<the last call and its result>>

vars == <<document_class, documents, feature_codebook, label_codebook, pc,
          sequence, line_number, lines, opened, before, nfiles, nread, nmut,
          fin, fout>>

corpus_vars == <<document_class, documents, feature_codebook, label_codebook,
                 pc, sequence, line_number, lines, opened, before, nfiles, nread,
                 nmut>>

(* ------------------------------ bounds -------------------------------- *)

MaxFiles == 2
MaxLines == 5
MaxMut == 1
MaxDocs == 2
MaxSeqLen == 5

(* ------------------------------ inputs -------------------------------- *)

Classes == {"Character", "Character2", "CharacterTest"}

\* line.strip().split(' ') of the lines a file may hold: two token lines,
\* the three kinds of boundary line, and two lines with a wrong field count.
Lines ==
    { <<"a", "c", "B">>, <<"b", "v", "I">>,
      <<"EOS", "x", "O">>, <<"a", "v", "O">>, <<"EOS", "c", "B">>,
      <<"a", "c">>, <<"a", "", "c", "B">> }

(* --------------------------- Document --------------------------------- *)

Document(data, label, source) ==
    [data |-> data, label |-> label, source |-> source,
     feature_vector |-> <<>>, label_index |-> <<>>]

(* --------------------------- Sequence --------------------------------- *)

RECURSIVE Labels(_)
Labels(document_list) ==
    IF document_list = <<>> THEN <<>>
    ELSE <<Head(document_list).label>> \o Labels(Tail(document_list))

NewSequence(document_list) ==
    [sequence |-> document_list, label |-> Labels(document_list)]

\* Python's list indexing: s[k] for -len(s) <= k < len(s), IndexError otherwise.
InRange(s, k) == -Len(s) <= k /\ k < Len(s)
Item(s, k) == IF k >= 0 THEN s[k + 1] ELSE s[Len(s) + k + 1]

(* ------------------------ sequence_features --------------------------- *)

\* The result of a featurizer: the feature list, the indices of the sequence
\* it read, and whether an IndexError ended it.
NoFeatures == [features |-> <<>>, reads |-> {}, raised |-> FALSE]

Push(acc, feature) ==
    IF acc.raised THEN acc
    ELSE [acc EXCEPT !.features = Append(@, feature)]

\* features.append(prefix % sequence[k].data[field])
PushData(acc, prefix, s, k, field) ==
    IF acc.raised THEN acc
    ELSE IF ~InRange(s, k)
         THEN [acc EXCEPT !.reads = @ \cup {k}, !.raised = TRUE]
         ELSE [acc EXCEPT !.reads = @ \cup {k},
                          !.features = Append(@, prefix \o Item(s, k).data[field])]

\* features.append(sequence[k].label)
PushLabel(acc, s, k) ==
    IF acc.raised THEN acc
    ELSE IF ~InRange(s, k)
         THEN [acc EXCEPT !.reads = @ \cup {k}, !.raised = TRUE]
         ELSE [acc EXCEPT !.reads = @ \cup {k},
                          !.features = Append(@, Item(s, k).label)]

\* CharacterPrev without its test for the start of the sequence.
CharacterPrev_NoGuard(acc, t, s) == PushData(acc, "T-1=", s, t - 1, 2)

CharacterPrev(acc, t, s) ==
    IF t = 0 THEN Push(acc, "T-1=START")
    ELSE PushData(acc, "T-1=", s, t - 1, 2)

CharacterNext(acc, t, s) ==
    IF t = Len(s) - 1 THEN Push(acc, "T+1=END")
    ELSE PushData(acc, "T+1=", s, t + 1, 2)

Character(t, s) ==
    CharacterNext(
        CharacterPrev(
            Push(PushData(NoFeatures, "T0=", s, t, 2), "**BIAS TERM**"),
            t, s),
        t, s)

Character2Plus(acc, i, t, s) ==
    IF t + i >= Len(s) THEN Push(acc, "T+" \o ToString(i) \o "=END")
    ELSE PushData(
             PushData(acc, "T+" \o ToString(i) \o "=", s, t + i, 1),
             "T+" \o ToString(i) \o "=", s, t + i, 2)

Character2Minus(acc, i, t, s) ==
    IF t - i < 0 THEN Push(acc, "T-" \o ToString(i) \o "=START")
    ELSE PushData(
             PushData(acc, "T-" \o ToString(i) \o "=", s, t - i, 1),
             "T-" \o ToString(i) \o "=", s, t - i, 2)

\* Character2Loop with the -i entry taken before the +i entry.
RECURSIVE Character2Loop_MinusFirst(_, _, _, _)
Character2Loop_MinusFirst(acc, i, t, s) ==
    IF i >= 2 + 1 THEN acc
    ELSE Character2Loop_MinusFirst(
             Character2Plus(Character2Minus(acc, i, t, s), i, t, s),
             i + 1, t, s)

\* for i in range(1, 2+1)
RECURSIVE Character2Loop(_, _, _, _)
Character2Loop(acc, i, t, s) ==
    IF i >= 2 + 1 THEN acc
    ELSE Character2Loop(
             Character2Minus(Character2Plus(acc, i, t, s), i, t, s),
             i + 1, t, s)

Character2(t, s) ==
    Character2Loop(
        Push(PushData(PushData(NoFeatures, "T0=", s, t, 2), "T0=", s, t, 1),
             "**BIAS TERM**"),
        1, t, s)

CharacterTest(t, s) == PushLabel(NoFeatures, s, t)

\* document.sequence_features(t, sequence), dispatched on the document's class
sequence_features(class, t, s) ==
    CASE class = "Character" -> Character(t, s)
      [] class = "Character2" -> Character2(t, s)
      [] class = "CharacterTest" -> CharacterTest(t, s)

(* ----------------------------- featurize ------------------------------ *)

EmptyCodebook == [k \in {} |-> 0]

\* Intern numbering from 1: codebook[key] = len(codebook) + 1
Intern_OffByOne(codebook, key) ==
    IF key \in DOMAIN codebook THEN codebook
    ELSE codebook @@ (key :> Cardinality(DOMAIN codebook) + 1)

\* if key not in codebook: codebook[key] = len(codebook)
Intern(codebook, key) ==
    IF key \in DOMAIN codebook THEN codebook
    ELSE codebook @@ (key :> Cardinality(DOMAIN codebook))

\* InternFeatures without the "not in" test: every occurrence of a feature is
\* given the next free index.
RECURSIVE InternFeatures_Reassign(_, _, _)
InternFeatures_Reassign(codebook, feature_vector, features) ==
    IF features = <<>>
    THEN [codebook |-> codebook, feature_vector |-> feature_vector]
    ELSE LET n == Cardinality(DOMAIN codebook)
             cb == [k \in DOMAIN codebook \cup {Head(features)} |->
                      IF k = Head(features) THEN n ELSE codebook[k]]
         IN InternFeatures_Reassign(cb, Append(feature_vector, n), Tail(features))

\* for feature in features: intern it, append its index to the feature vector
RECURSIVE InternFeatures(_, _, _)
InternFeatures(codebook, feature_vector, features) ==
    IF features = <<>>
    THEN [codebook |-> codebook, feature_vector |-> feature_vector]
    ELSE LET cb == Intern(codebook, Head(features))
         IN InternFeatures(cb, Append(feature_vector, cb[Head(features)]),
                           Tail(features))

\* One iteration of featurize's inner loop: document t of sequence i.
\* st = [documents, feature_codebook, label_codebook, raised]
FeaturizeDocument(class, st, i, t) ==
    LET s == st.documents[i].sequence
        document == s[t + 1]
        r == sequence_features(class, t, s)
        f == InternFeatures(st.feature_codebook, document.feature_vector,
                            r.features)
        lcb == Intern(st.label_codebook, document.label)
    IN IF r.raised THEN [st EXCEPT !.raised = TRUE]
       ELSE [st EXCEPT
               !.feature_codebook = f.codebook,
               !.label_codebook = lcb,
               !.documents[i].sequence[t + 1].feature_vector = f.feature_vector,
               !.documents[i].sequence[t + 1].label_index = <<lcb[document.label]>>]

\* for sequence in self.documents: for t, document in enumerate(sequence)
RECURSIVE FeaturizeFrom(_, _, _, _)
FeaturizeFrom(class, st, i, t) ==
    IF st.raised \/ i > Len(st.documents) THEN st
    ELSE IF t >= Len(st.documents[i].sequence)
         THEN FeaturizeFrom(class, st, i + 1, 0)
         ELSE FeaturizeFrom(class, FeaturizeDocument(class, st, i, t), i, t + 1)

featurize(class, docs) ==
    FeaturizeFrom(class,
                  [documents |-> docs, feature_codebook |-> EmptyCodebook,
                   label_codebook |-> EmptyCodebook, raised |-> FALSE],
                  1, 0)

(* --------------------------- ThaiWordCorpus --------------------------- *)

\* IsBoundary with "and" for "or".
IsBoundary_And(character, tag) == character = "EOS" /\ tag = "O"

\* IsBoundary testing the tag alone.
IsBoundary_TagOnly(character, tag) == tag = "O"

\* character == 'EOS' or tag == 'O'
IsBoundary(character, tag) == character = "EOS" \/ tag = "O"

\* Corpus.__init__ with a glob that matches no file yet: an empty corpus.
InitCorpus ==
    /\ document_class \in Classes
    /\ documents = <<>>
    /\ feature_codebook = EmptyCodebook
    /\ label_codebook = EmptyCodebook
    /\ pc = "idle"
    /\ sequence = <<>>
    /\ line_number = 0
    /\ lines = <<>>
    /\ opened = <<>>
    /\ before = [feature_codebook |-> EmptyCodebook,
                 label_codebook |-> EmptyCodebook]
    /\ nfiles = 0
    /\ nread = 0
    /\ nmut = 0

IdleHarness == fin = <<>> /\ fout = <<>>

Init == InitCorpus /\ IdleHarness

\* load is entered for the next data file: the file is opened and the locals set.
Open ==
    /\ pc = "idle"
    /\ nfiles < MaxFiles
    /\ pc' = "loading"
    /\ nfiles' = nfiles + 1
    /\ sequence' = <<>>
    /\ line_number' = 0
    /\ lines' = <<>>
    /\ opened' = documents
    /\ before' = [feature_codebook |-> feature_codebook,
                  label_codebook |-> label_codebook]
    /\ UNCHANGED <<document_class, documents, feature_codebook, label_codebook,
                   nread, nmut, fin, fout>>

\* One iteration of "for line in file": the unpacking raises ValueError for a
\* line that does not split into 3 fields, and the exception leaves load.
ReadLine(line) ==
    /\ pc = "loading"
    /\ nread < MaxLines
    /\ nread' = nread + 1
    /\ lines' = Append(lines, line)
    /\ IF Len(line) # 3
       THEN /\ pc' = "aborted"
            /\ UNCHANGED <<documents, sequence, line_number>>
       ELSE /\ pc' = pc
            /\ line_number' = line_number + 1
            /\ IF IsBoundary(line[1], line[3])
               THEN /\ documents' = IF Len(sequence) > 0
                                    THEN Append(documents, NewSequence(sequence))
                                    ELSE documents
                    /\ sequence' = <<>>
               ELSE /\ sequence' = Append(sequence,
                                          Document(<<line[1], line[2]>>, line[3],
                                                   line_number))
                    /\ documents' = documents
    /\ UNCHANGED <<document_class, feature_codebook, label_codebook, opened,
                   before, nfiles, nmut, fin, fout>>

\* self.featurize(): both codebooks are rebuilt and every document of the
\* corpus has its features appended; an exception leaves the caller.
RunFeaturize ==
    LET st == featurize(document_class, documents)
    IN /\ documents' = st.documents
       /\ feature_codebook' = st.feature_codebook
       /\ label_codebook' = st.label_codebook
       /\ pc' = IF st.raised THEN "aborted" ELSE "idle"

\* EndOfFile with a flush of the buffer before the featurization pass.
EndOfFile_Flush ==
    /\ pc = "loading"
    /\ LET st == featurize(document_class,
                           IF Len(sequence) > 0
                           THEN Append(documents, NewSequence(sequence))
                           ELSE documents)
       IN /\ documents' = st.documents
          /\ feature_codebook' = st.feature_codebook
          /\ label_codebook' = st.label_codebook
          /\ pc' = IF st.raised THEN "aborted" ELSE "idle"
    /\ UNCHANGED <<document_class, sequence, line_number, lines, opened, before,
                   nfiles, nread, nmut, fin, fout>>

\* The file is exhausted: the with block closes it and self.featurize() runs.
EndOfFile ==
    /\ pc = "loading"
    /\ RunFeaturize
    /\ UNCHANGED <<document_class, sequence, line_number, lines, opened, before,
                   nfiles, nread, nmut, fin, fout>>

Next ==
    \/ Open
    \/ \E line \in Lines : ReadLine(line)
    \/ EndOfFile

Spec == Init /\ [][Next]_vars

(* ------------------- the caller's container mutations ----------------- *)

\* Sequence.__setitem__: self.sequence[key] = value
SetItemOf(seq, key, value) == [seq EXCEPT !.sequence[key + 1] = value]

\* DelItemOf deleting the label of the deleted document as well.
DelItemOf_Synced(seq, key) ==
    [seq EXCEPT !.sequence = SubSeq(@, 1, key) \o SubSeq(@, key + 2, Len(@)),
                !.label = SubSeq(@, 1, key) \o SubSeq(@, key + 2, Len(@))]

\* Sequence.__delitem__: del self.sequence[key]
DelItemOf(seq, key) ==
    [seq EXCEPT !.sequence = SubSeq(@, 1, key) \o SubSeq(@, key + 2, Len(@))]

\* Documents a caller may put into a Sequence.
NewDocuments ==
    { Document(<<"b", "v">>, "I", 0), Document(<<"a", "c">>, "B", 0) }

\* The document lists a caller may build a Sequence from.
DocumentLists == UNION { [1..n -> NewDocuments] : n \in 1..MaxDocs }

InitSeq == InitCorpus /\ fin \in DocumentLists /\ fout = <<>>

Positions ==
    UNION { { <<i, k>> : k \in 0..(Len(documents[i].sequence) - 1) } :
              i \in 1..Len(documents) }

\* corpus.documents.append(Sequence(fin))
Construct ==
    /\ pc = "idle"
    /\ documents = <<>>
    /\ documents' = <<NewSequence(fin)>>
    /\ UNCHANGED <<document_class, feature_codebook, label_codebook, pc, sequence,
                   line_number, lines, opened, before, nfiles, nread, nmut,
                   fin, fout>>

\* corpus[i][k] = value
SetItem(i, k, value) ==
    /\ pc = "idle"
    /\ nmut < MaxMut
    /\ nmut' = nmut + 1
    /\ documents' = [documents EXCEPT ![i] = SetItemOf(@, k, value)]
    /\ UNCHANGED <<document_class, feature_codebook, label_codebook, pc, sequence,
                   line_number, lines, opened, before, nfiles, nread, fin, fout>>

\* del corpus[i][k]
DelItem(i, k) ==
    /\ pc = "idle"
    /\ nmut < MaxMut
    /\ nmut' = nmut + 1
    /\ documents' = [documents EXCEPT ![i] = DelItemOf(@, k)]
    /\ UNCHANGED <<document_class, feature_codebook, label_codebook, pc, sequence,
                   line_number, lines, opened, before, nfiles, nread, fin, fout>>

\* corpus[i][k].label = label
SetLabel(i, k, label) ==
    /\ pc = "idle"
    /\ nmut < MaxMut
    /\ nmut' = nmut + 1
    /\ documents' = [documents EXCEPT ![i].sequence[k + 1].label = label]
    /\ UNCHANGED <<document_class, feature_codebook, label_codebook, pc, sequence,
                   line_number, lines, opened, before, nfiles, nread, fin, fout>>

\* corpus.featurize(), called on the corpus as it stands
Featurize ==
    /\ pc = "idle"
    /\ documents # <<>>
    /\ nfiles < MaxFiles
    /\ nfiles' = nfiles + 1
    /\ RunFeaturize
    /\ UNCHANGED <<document_class, sequence, line_number, lines, opened, before,
                   nread, nmut, fin, fout>>

NextSeq ==
    \/ Construct
    \/ \E p \in Positions, value \in NewDocuments : SetItem(p[1], p[2], value)
    \/ \E p \in Positions : DelItem(p[1], p[2])
    \/ \E p \in Positions, label \in {"B", "I"} : SetLabel(p[1], p[2], label)
    \/ Featurize

SpecSeq == InitSeq /\ [][NextSeq]_vars

(* ------------------------ the featurizer harness ---------------------- *)

\* The documents of a sequence under test: every (character, type) pair.
HarnessDocuments ==
    { Document(<<ch, ty>>, IF ch = "a" THEN "B" ELSE "I", 0) :
        ch \in {"a", "b"}, ty \in {"c", "v"} }

HarnessSequences ==
    UNION { [1..n -> HarnessDocuments] : n \in 1..MaxSeqLen }

InitFeat == InitCorpus /\ fin \in HarnessSequences /\ fout = <<>>

\* document.sequence_features(t, fin) for a document of class document_class
Apply(t) ==
    /\ t \in 0..(Len(fin) - 1)
    /\ fout' = << [t |-> t] @@ sequence_features(document_class, t, fin) >>
    /\ UNCHANGED <<corpus_vars, fin>>

NextFeat == \E t \in 0..MaxSeqLen : Apply(t)

SpecFeat == InitFeat /\ [][NextFeat]_vars

(* ============================== claims ================================ *)

Max(S) == CHOOSE x \in S : \A y \in S : y <= x

Elements(s) == { s[j] : j \in 1..Len(s) }

\* The features the extractor of the corpus's class gives position p = <<i, t>>.
FeaturesAt(docs, p) ==
    sequence_features(document_class, p[2], docs[p[1]].sequence).features

PositionsOf(docs) ==
    UNION { { <<i, k>> : k \in 0..(Len(docs[i].sequence) - 1) } :
              i \in 1..Len(docs) }

DocumentAt(docs, p) == docs[p[1]].sequence[p[2] + 1]

\* What parsing gives a document, without what featurization adds.
Parsed(d) == [data |-> d.data, label |-> d.label, source |-> d.source]

ParsedSequence(q) == [j \in 1..Len(q.sequence) |-> Parsed(q.sequence[j])]

\* The boundary lines of the file read so far, by their 1-based position.
BoundaryLines ==
    { b \in 1..Len(lines) : lines[b][1] = "EOS" \/ lines[b][3] = "O" }

LastBoundary == IF BoundaryLines = {} THEN 0 ELSE Max(BoundaryLines)

\* The first line of the run that boundary line b ends.
RunStart(b) ==
    LET earlier == { c \in BoundaryLines : c < b }
    IN IF earlier = {} THEN 1 ELSE Max(earlier) + 1

\* The boundary lines that end a non-empty run.
Flushing == { b \in BoundaryLines : RunStart(b) < b }

Rank(b) == Cardinality({ c \in Flushing : c <= b })

\* The documents of the run that boundary line b ends, in line order.
RunDocuments(b) ==
    [j \in 1..(b - RunStart(b)) |->
       LET l == lines[RunStart(b) + j - 1]
       IN [data |-> <<l[1], l[2]>>, label |-> l[3],
           source |-> RunStart(b) + j - 2]]

\* C1: after construction over any number of files, every document's
\* feature_vector has exactly one index per feature its extractor produces.
C1_VectorLengthMatchesFeatures ==
    pc = "idle" =>
        \A p \in PositionsOf(documents) :
            Len(DocumentAt(documents, p).feature_vector)
                = Len(FeaturesAt(documents, p))

Injective(cb) == \A k1, k2 \in DOMAIN cb : k1 # k2 => cb[k1] # cb[k2]

Dense(cb) == { cb[k] : k \in DOMAIN cb } = 0..(Cardinality(DOMAIN cb) - 1)

\* C2: after every featurization pass both codebooks are injective with the
\* dense range 0..len-1, and hold every feature and label encountered.
C2_CodebooksInjectiveAndDense ==
    /\ Injective(feature_codebook) /\ Dense(feature_codebook)
    /\ Injective(label_codebook) /\ Dense(label_codebook)
    /\ pc = "idle" =>
         \A p \in PositionsOf(documents) :
            /\ Elements(FeaturesAt(documents, p)) \subseteq DOMAIN feature_codebook
            /\ DocumentAt(documents, p).label \in DOMAIN label_codebook

C2_Witness ==
    /\ pc = "idle"
    /\ Cardinality(DOMAIN feature_codebook) >= 3
    /\ Cardinality(DOMAIN label_codebook) >= 2

Agree(old, new) == \A k \in DOMAIN old : k \in DOMAIN new /\ new[k] = old[k]

\* Every index recorded on a document is the codebook's index of the feature
\* (resp. label) it was recorded for, in whichever pass it was recorded.
RecordedAsInterned(docs, fcb, lcb) ==
    \A p \in PositionsOf(docs) :
        LET d == DocumentAt(docs, p)
            f == FeaturesAt(docs, p)
        IN /\ \A j \in 1..Len(d.feature_vector) :
                d.feature_vector[j] = fcb[f[((j - 1) % Len(f)) + 1]]
           /\ d.label_index # <<>> => d.label_index[1] = lcb[d.label]

\* C3: an index once given is never reassigned: each step leaves every key
\* of both codebooks with its index, and every index recorded on a document,
\* in this pass or an earlier one, is the index its string has now.
C3_IndexNeverReassigned ==
    [][ /\ Agree(feature_codebook, feature_codebook')
        /\ Agree(label_codebook, label_codebook')
        /\ RecordedAsInterned(documents', feature_codebook', label_codebook')
      ]_vars

C3_Witness ==
    /\ pc = "idle"
    /\ nfiles = 2
    /\ DOMAIN before.label_codebook # {}
    /\ Cardinality(DOMAIN label_codebook)
         > Cardinality(DOMAIN before.label_codebook)
    /\ Cardinality(DOMAIN feature_codebook)
         > Cardinality(DOMAIN before.feature_codebook)

\* C4: load of a well-formed file appends, in file order, one Sequence per
\* boundary line that ends a non-empty run; the Sequence holds exactly the
\* documents of that run in line order, with their labels; boundary lines
\* give no document and no empty Sequence.
C4_OneSequencePerNonEmptyRun ==
    pc \in {"loading", "idle"} =>
        /\ Len(documents) = Len(opened) + Cardinality(Flushing)
        /\ \A i \in 1..Len(opened) :
              /\ ParsedSequence(documents[i]) = ParsedSequence(opened[i])
              /\ documents[i].label = opened[i].label
        /\ \A b \in Flushing :
              LET q == documents[Len(opened) + Rank(b)]
              IN /\ ParsedSequence(q) = RunDocuments(b)
                 /\ q.label = [j \in 1..(b - RunStart(b)) |->
                                  RunDocuments(b)[j].label]

C4_Witness ==
    /\ pc = "idle"
    /\ lines = << <<"a", "c", "B">>, <<"b", "v", "I">>, <<"EOS", "x", "O">> >>
    /\ opened = <<>>
    /\ Len(documents) = 1
    /\ Len(documents[1].sequence) = 2
    /\ documents[1].label = <<"B", "I">>

\* C5: a load that raises on a malformed line leaves the documents list and
\* both codebooks as they were when the load began.
C5_FailedLoadAddsNothing ==
    pc = "aborted" =>
        /\ documents = opened
        /\ feature_codebook = before.feature_codebook
        /\ label_codebook = before.label_codebook

\* C9: at end of file the buffer is not flushed: the documents of the lines
\* after the last boundary line are in no Sequence of the corpus, are never
\* featurized and give the codebooks nothing; a file with no boundary line
\* adds no Sequence.
C9_EndOfFileDropsBuffer ==
    pc = "idle" =>
        /\ BoundaryLines = {} => Len(documents) = Len(opened)
        /\ Len(sequence) = Len(lines) - LastBoundary
        /\ \A i \in (Len(opened) + 1)..Len(documents) :
              \A d \in Elements(documents[i].sequence) :
                  d.source + 1 < LastBoundary
        /\ \A d \in Elements(sequence) :
              d.feature_vector = <<>> /\ d.label_index = <<>>
        /\ DOMAIN label_codebook
             = { DocumentAt(documents, p).label : p \in PositionsOf(documents) }
        /\ DOMAIN feature_codebook
             = UNION { Elements(FeaturesAt(documents, p)) :
                         p \in PositionsOf(documents) }

C9_Witness ==
    /\ pc = "idle"
    /\ Len(documents) > Len(opened)
    /\ \E d \in Elements(sequence) : d.label \notin DOMAIN label_codebook

\* C10: no document of the corpus or of the buffer has label "O" or
\* character "EOS", whatever the other field of its line was, and the label
\* codebook never has the key "O".
C10_NoBoundaryDocument ==
    /\ \A p \in PositionsOf(documents) :
          /\ DocumentAt(documents, p).label # "O"
          /\ DocumentAt(documents, p).data[1] # "EOS"
    /\ \A d \in Elements(sequence) : d.label # "O" /\ d.data[1] # "EOS"
    /\ "O" \notin DOMAIN label_codebook

C10_Witness ==
    /\ pc = "idle"
    /\ documents # <<>>
    /\ <<"EOS", "c", "B">> \in Elements(lines)
    /\ <<"a", "v", "O">> \in Elements(lines)

\* C6: Character and Character2 never read the sequence outside
\* 0..len(s)-1 and never raise; every neighbour outside that range is
\* replaced by its sentinel.
C6_NoOutOfRangeRead ==
    (fout # <<>> /\ document_class \in {"Character", "Character2"}) =>
        LET r == fout[1]
            n == Len(fin)
            F == Elements(r.features)
        IN /\ ~r.raised
           /\ r.reads \subseteq 0..(n - 1)
           /\ document_class = "Character" =>
                /\ r.t = 0 => "T-1=START" \in F
                /\ r.t = n - 1 => "T+1=END" \in F
           /\ document_class = "Character2" =>
                \A i \in 1..2 :
                    /\ r.t - i < 0 => ("T-" \o ToString(i) \o "=START") \in F
                    /\ r.t + i >= n => ("T+" \o ToString(i) \o "=END") \in F

C6_Witness ==
    /\ fout # <<>>
    /\ document_class = "Character"
    /\ Len(fin) = 1
    /\ {"T-1=START", "T+1=END"} \subseteq Elements(fout[1].features)

\* The entry of Character2 for the neighbour at position k.
NeighbourEntry(prefix, k) ==
    IF k \in 0..(Len(fin) - 1)
    THEN <<prefix \o "=" \o fin[k + 1].data[1], prefix \o "=" \o fin[k + 1].data[2]>>
    ELSE IF k < 0 THEN <<prefix \o "=START">> ELSE <<prefix \o "=END">>

\* C7: Character2 gives current type, current raw value, the bias term,
\* then the t+1, t-1, t+2 and t-2 entries in that order, each the raw value
\* and type of the neighbour or one sentinel: 11 features less one per
\* neighbour outside the sequence.
C7_Character2Order ==
    (fout # <<>> /\ document_class = "Character2") =>
        LET r == fout[1]
            t == r.t
            outside == { k \in {t + 1, t - 1, t + 2, t - 2} :
                           k \notin 0..(Len(fin) - 1) }
        IN /\ r.features =
                <<"T0=" \o fin[t + 1].data[2], "T0=" \o fin[t + 1].data[1],
                  "**BIAS TERM**">>
                \o NeighbourEntry("T+1", t + 1) \o NeighbourEntry("T-1", t - 1)
                \o NeighbourEntry("T+2", t + 2) \o NeighbourEntry("T-2", t - 2)
           /\ Len(r.features) = 11 - Cardinality(outside)
           /\ Len(fin) = 1 => Len(r.features) = 7

C7_Witness ==
    /\ fout # <<>>
    /\ document_class = "Character2"
    /\ Len(fout[1].features) = 11

\* C8: a Sequence's label list is a snapshot: right at construction it has
\* one entry per document, that document's label; no later operation
\* (positional write or delete, a document's label change, a featurization
\* pass) changes it.
C8_LabelIsSnapshot ==
    [][ \A i \in 1..Len(documents') :
          IF i <= Len(documents)
          THEN documents'[i].label = documents[i].label
          ELSE /\ Len(documents'[i].label) = Len(documents'[i].sequence)
               /\ \A j \in 1..Len(documents'[i].sequence) :
                     documents'[i].label[j] = documents'[i].sequence[j].label
      ]_vars

C8_Witness ==
    /\ nmut > 0
    /\ nfiles > 0
    /\ \E i \in 1..Len(documents) :
          /\ Len(documents[i].label) = Len(documents[i].sequence)
          /\ \E j \in 1..Len(documents[i].sequence) :
                documents[i].label[j] # documents[i].sequence[j].label

====
